---- MODULE Spec2Model ----
(***************************************************************************)
(* A model of the vortice node (src/src/main.rs): main reads one JSON      *)
(* envelope after another from standard input, Node::step dispatches on    *)
(* the payload variant, writes at most one reply to the line-buffered      *)
(* standard output and advances the outbound message counter.              *)
(***************************************************************************)
EXTENDS Integers, Sequences, FiniteSets, TLC

(***************************************************************************)
(* Bounds of the model.                                                    *)
(***************************************************************************)
\* The longest input stream the harness feeds before closing standard input.
MaxInputs == 3

(***************************************************************************)
(* Option<T>: None is the empty sequence, Some(x) the one-element one.     *)
(***************************************************************************)
None == <<>>
Some(x) == <<x>>

(***************************************************************************)
(* The wire: what the harness may write on standard input.                 *)
(***************************************************************************)
\* The envelopes of the harness's requests: a client that numbers its
\* messages, and one that sends no msg_id.
Envelopes ==
    {[src |-> "c1", dest |-> "n1", msg_id |-> Some(7)],
     [src |-> "c2", dest |-> "n1", msg_id |-> None]}
\* The envelope of the messages a peer node sends.
PeerEnvelope == [src |-> "n2", dest |-> "n1", msg_id |-> Some(3)]
EchoStrings == {"hi", ""}
\* -1 is an integer of the wire format that is no usize.
BroadcastValues == {-1, 10, 20}
\* A topology map as a set of <<node, neighbours>> pairs: empty, or self-referencing.
Topologies == {{}, {<<"n1", <<"n1">>>>}}

\* The twelve variants of Payload under rename_all = "snake_case".
PayloadTags ==
    {"echo", "echo_ok", "init", "init_ok", "generate", "generate_ok",
     "broadcast", "broadcast_ok", "read", "read_ok", "topology", "topology_ok"}

\* One JSON value of the input stream; json = FALSE is a malformed one.
Raw(e, p) == [json |-> TRUE, src |-> e.src, dest |-> e.dest, msg_id |-> e.msg_id, payload |-> p]
Malformed == [json |-> FALSE, src |-> "", dest |-> "", msg_id |-> None, payload |-> [type |-> ""]]

(***************************************************************************)
(* serde: Msg, Body and Payload as derived by Deserialize.                 *)
(***************************************************************************)
\* usize: the non-negative integers (the model stays far below 2^64).
IsUsize(n) == n >= 0

DeserializeAnyTag(raw) ==
    IF ~raw.json
    THEN [ok |-> FALSE]
    ELSE IF raw.payload.type = "broadcast" /\ ~IsUsize(raw.payload.message)
    THEN [ok |-> FALSE]
    ELSE [ok |-> TRUE,
          msg |-> [src |-> raw.src, dst |-> raw.dest,
                   body |-> [id |-> raw.msg_id, in_reply_to |-> None,
                             payload |-> raw.payload]]]

\* Result<Msg>: an unknown "type" tag, a value that is no usize and malformed
\* JSON are errors; "dest" is renamed to dst and "msg_id" to id.
Deserialize(raw) ==
    IF ~raw.json
    THEN [ok |-> FALSE]
    ELSE IF raw.payload.type \notin PayloadTags
    THEN [ok |-> FALSE]
    ELSE IF raw.payload.type = "broadcast" /\ ~IsUsize(raw.payload.message)
    THEN [ok |-> FALSE]
    ELSE [ok |-> TRUE,
          msg |-> [src |-> raw.src, dst |-> raw.dest,
                   body |-> [id |-> raw.msg_id, in_reply_to |-> None,
                             payload |-> raw.payload]]]

(***************************************************************************)
(* ulid: Ulid::new() and its to_string().                                  *)
(***************************************************************************)
Crockford ==
    <<"0", "1", "2", "3", "4", "5", "6", "7", "8", "9", "A", "B", "C", "D", "E", "F",
      "G", "H", "J", "K", "M", "N", "P", "Q", "R", "S", "T", "V", "W", "X", "Y", "Z">>

RECURSIVE Base32(_, _)
\* n in len base-32 digits, most significant first.
Base32(n, len) ==
    IF len = 0 THEN <<>> ELSE Append(Base32(n \div 32, len - 1), Crockford[(n % 32) + 1])

\* 48 bits of time in 10 characters, then 80 random bits in 16.
UlidToString(u) == Base32(u.time, 10) \o Base32(u.random, 16)

\* What Ulid::new() may return: the clock's reading and a fresh random draw.
UlidDraws == [time : {0, 1}, random : {0, 1}]

(***************************************************************************)
(* State.                                                                  *)
(***************************************************************************)
VARIABLES
    pc,        \* where main is: "read", "step", "done" (Ok) or "failed" (Err)
    cur,       \* the Msg handed to step, as Option<Msg>
    id,        \* Node.id, the next outbound msg_id
    messages,  \* Node.messages
    outbuf,    \* replies serialized into the stdout buffer, not yet a flushed line
    stdout,    \* the reply lines flushed to standard output, in order
    inputs,    \* the JSON values consumed from standard input so far, in order
    err        \* the error main returns, as Option<String>

vars == <<pc, cur, id, messages, outbuf, stdout, inputs, err>>

Init ==
    /\ pc = "read"
    /\ cur = None
    /\ id = 0
    /\ messages = <<>>
    /\ outbuf = <<>>
    /\ stdout = <<>>
    /\ inputs = <<>>
    /\ err = None

(***************************************************************************)
(* main: the loop over the stream of deserialized messages.                *)
(***************************************************************************)
PropagateContinue == "read"

\* The ? operator in main: an Err ends the loop and main returns it.
Propagate == "failed"

\* The iterator yields one more value: Err ends main, Ok(mes) goes to step.
Feed(raw) ==
    /\ pc = "read"
    /\ Len(inputs) < MaxInputs
    /\ inputs' = Append(inputs, raw)
    /\ LET r == Deserialize(raw) IN
        IF r.ok
        THEN /\ cur' = Some(r.msg)
             /\ pc' = "step"
             /\ err' = err
        ELSE /\ cur' = None
             /\ pc' = Propagate
             /\ err' = Some("STDIN::Could not deserialize")
    /\ UNCHANGED <<id, messages, outbuf, stdout>>


EofBlocks ==
    /\ pc = "read"
    /\ UNCHANGED vars

\* End of input: the loop ends and main returns Ok(()).
Eof ==
    /\ pc = "read"
    /\ pc' = "done"
    /\ UNCHANGED <<cur, id, messages, outbuf, stdout, inputs, err>>

ReadMsg ==
    \/ Eof
    \/ Feed(Malformed)
    \/ Feed(Raw(PeerEnvelope, [type |-> "gossip"]))
    \/ Feed(Raw(PeerEnvelope, [type |-> "init_ok"]))
    \/ Feed(Raw(PeerEnvelope, [type |-> "echo_ok", echo |-> "hi"]))
    \/ Feed(Raw(PeerEnvelope, [type |-> "generate_ok", id |-> UlidToString([time |-> 0, random |-> 0])]))
    \/ Feed(Raw(PeerEnvelope, [type |-> "broadcast_ok"]))
    \/ Feed(Raw(PeerEnvelope, [type |-> "read_ok", messages |-> <<10>>]))
    \/ Feed(Raw(PeerEnvelope, [type |-> "topology_ok"]))
    \/ \E e \in Envelopes :
        \/ Feed(Raw(e, [type |-> "init", node_id |-> e.dest, node_ids |-> <<e.dest>>]))
        \/ \E s \in EchoStrings : Feed(Raw(e, [type |-> "echo", echo |-> s]))
        \/ Feed(Raw(e, [type |-> "generate"]))
        \/ \E v \in BroadcastValues : Feed(Raw(e, [type |-> "broadcast", message |-> v]))
        \/ Feed(Raw(e, [type |-> "read"]))
        \/ \E t \in Topologies : Feed(Raw(e, [type |-> "topology", topology |-> t]))

(***************************************************************************)
(* Node::step.                                                             *)
(***************************************************************************)
input == cur[1]

ArmOkAsRequest(payload) ==
    CASE payload.type = "echo_ok" -> "echo"
      [] payload.type = "read_ok" -> "read"
      [] payload.type \in {"init", "init_ok", "echo", "generate", "broadcast", "read", "topology"} -> payload.type
      [] OTHER -> "_"

ArmDropTopology(payload) ==
    IF payload.type \in {"init", "init_ok", "echo", "generate", "broadcast", "read"}
    THEN payload.type
    ELSE "_"

\* The arm of step's match that a payload selects; "_" is the catch-all.
Arm(payload) ==
    IF payload.type \in {"init", "init_ok", "echo", "generate", "broadcast", "read", "topology"}
    THEN payload.type
    ELSE "_"

AnsEchoCounter(in, nid, payload) ==
    [src |-> in.dst, dst |-> in.src,
     body |-> [id |-> Some(nid), in_reply_to |-> Some(nid), payload |-> payload]]

AnsNoSwap(in, nid, payload) ==
    [src |-> in.src, dst |-> in.dst,
     body |-> [id |-> Some(nid), in_reply_to |-> in.body.id, payload |-> payload]]


AnsDefaultReplyTo(in, nid, payload) ==
    [src |-> in.dst, dst |-> in.src,
     body |-> [id |-> Some(nid),
               in_reply_to |-> IF in.body.id = None THEN Some(0) ELSE in.body.id,
               payload |-> payload]]

\* let ans = Msg { src: input.dst, dst: input.src, body: Body { .. } }
Ans(in, nid, payload) ==
    [src |-> in.dst, dst |-> in.src,
     body |-> [id |-> Some(nid), in_reply_to |-> in.body.id, payload |-> payload]]

\* serde_json::to_writer: the reply's JSON goes into the stdout buffer.
ToWriter(buf, ans) == Append(buf, ans)

WriteNewlineBlockBuffered(out, buf) == [stdout |-> out, outbuf |-> buf]

\* output.write_all(b"\n") on the line-buffered StdoutLock: the newline
\* completes the line, and the buffer is flushed up to it.
WriteNewline(out, buf) == [stdout |-> out \o buf, outbuf |-> <<>>]

NextIdStuck(i) == i

\* self.id += 1
NextId(i) == i + 1


EmitCountFirst(ans) ==
    \/ /\ pc' = Propagate
       /\ err' = Some("Serialize::serialize failed init")
       /\ id' = NextId(id)
       /\ UNCHANGED <<outbuf, stdout>>
    \/ /\ pc' = Propagate
       /\ err' = Some("Write::failed")
       /\ outbuf' = ToWriter(outbuf, ans)
       /\ id' = NextId(id)
       /\ UNCHANGED stdout
    \/ /\ LET w == WriteNewline(stdout, ToWriter(outbuf, ans)) IN
            /\ stdout' = w.stdout
            /\ outbuf' = w.outbuf
       /\ id' = NextId(id)
       /\ pc' = "read"
       /\ err' = err

\* The tail of every replying arm: serialize, write the newline, count. Either
\* write may fail, and the ? returns the error before the counter moves.
Emit(ans) ==
    \/ /\ pc' = Propagate
       /\ err' = Some("Serialize::serialize failed init")
       /\ UNCHANGED <<id, outbuf, stdout>>
    \/ /\ pc' = Propagate
       /\ err' = Some("Write::failed")
       /\ outbuf' = ToWriter(outbuf, ans)
       /\ UNCHANGED <<id, stdout>>
    \/ /\ LET w == WriteNewline(stdout, ToWriter(outbuf, ans)) IN
            /\ stdout' = w.stdout
            /\ outbuf' = w.outbuf
       /\ id' = NextId(id)
       /\ pc' = "read"
       /\ err' = err


StepInitResets ==
    /\ pc = "step"
    /\ Arm(input.body.payload) = "init"
    /\ messages' = <<>>
    /\ Emit(Ans(input, id, [type |-> "init_ok"]))
    /\ cur' = None
    /\ UNCHANGED inputs

StepInit ==
    /\ pc = "step"
    /\ Arm(input.body.payload) = "init"
    /\ Emit(Ans(input, id, [type |-> "init_ok"]))
    /\ cur' = None
    /\ UNCHANGED <<messages, inputs>>

StepInitOk ==
    /\ pc = "step"
    /\ Arm(input.body.payload) = "init_ok"
    /\ pc' = "read"
    /\ cur' = None
    /\ UNCHANGED <<id, messages, outbuf, stdout, inputs, err>>


StepEchoFixed ==
    /\ pc = "step"
    /\ Arm(input.body.payload) = "echo"
    /\ Emit(Ans(input, id, [type |-> "echo_ok", echo |-> "hi"]))
    /\ cur' = None
    /\ UNCHANGED <<messages, inputs>>

StepEcho ==
    /\ pc = "step"
    /\ Arm(input.body.payload) = "echo"
    /\ Emit(Ans(input, id, [type |-> "echo_ok", echo |-> input.body.payload.echo]))
    /\ cur' = None
    /\ UNCHANGED <<messages, inputs>>

StepGenerate ==
    /\ pc = "step"
    /\ Arm(input.body.payload) = "generate"
    /\ \E id_ \in UlidDraws :
           Emit(Ans(input, id, [type |-> "generate_ok", id |-> UlidToString(id_)]))
    /\ cur' = None
    /\ UNCHANGED <<messages, inputs>>

PushFront(msgs, message) == <<message>> \o msgs


PushNew(msgs, message) ==
    IF \E i \in 1..Len(msgs) : msgs[i] = message THEN msgs ELSE Append(msgs, message)

\* self.messages.push(message)
Push(msgs, message) == Append(msgs, message)


StepBroadcastAckFirst ==
    /\ pc = "step"
    /\ Arm(input.body.payload) = "broadcast"
    /\ Emit(Ans(input, id, [type |-> "broadcast_ok"]))
    /\ messages' = IF pc' = "read"
                   THEN Push(messages, input.body.payload.message)
                   ELSE messages
    /\ cur' = None
    /\ UNCHANGED inputs

StepBroadcast ==
    /\ pc = "step"
    /\ Arm(input.body.payload) = "broadcast"
    /\ messages' = Push(messages, input.body.payload.message)
    /\ Emit(Ans(input, id, [type |-> "broadcast_ok"]))
    /\ cur' = None
    /\ UNCHANGED inputs


StepReadAnyOrder ==
    /\ pc = "step"
    /\ Arm(input.body.payload) = "read"
    /\ \E ms \in {messages, [i \in 1..Len(messages) |-> messages[Len(messages) + 1 - i]]} :
           Emit(Ans(input, id, [type |-> "read_ok", messages |-> ms]))
    /\ cur' = None
    /\ UNCHANGED <<messages, inputs>>

StepRead ==
    /\ pc = "step"
    /\ Arm(input.body.payload) = "read"
    /\ Emit(Ans(input, id, [type |-> "read_ok", messages |-> messages]))
    /\ cur' = None
    /\ UNCHANGED <<messages, inputs>>


StepTopologyClears ==
    /\ pc = "step"
    /\ Arm(input.body.payload) = "topology"
    /\ messages' = <<>>
    /\ Emit(Ans(input, id, [type |-> "topology_ok"]))
    /\ cur' = None
    /\ UNCHANGED inputs

StepTopology ==
    /\ pc = "step"
    /\ Arm(input.body.payload) = "topology"
    /\ Emit(Ans(input, id, [type |-> "topology_ok"]))
    /\ cur' = None
    /\ UNCHANGED <<messages, inputs>>

\* _ => {}: the remaining variants (the other *_ok) do nothing.
StepOther ==
    /\ pc = "step"
    /\ Arm(input.body.payload) = "_"
    /\ pc' = "read"
    /\ cur' = None
    /\ UNCHANGED <<id, messages, outbuf, stdout, inputs, err>>

Step ==
    \/ StepInit
    \/ StepInitOk
    \/ StepEcho
    \/ StepGenerate
    \/ StepBroadcast
    \/ StepRead
    \/ StepTopology
    \/ StepOther

Next == ReadMsg \/ Step

Spec == Init /\ [][Next]_vars

\* The process's exit status once main has returned: 0 for Ok(()), 1 for Err.
ExitCode ==
    CASE pc = "done" -> Some(0)
      [] pc = "failed" -> Some(1)
      [] OTHER -> None

\* The single thread keeps running, and the blocking read of standard input
\* returns: with the next value, or with the end of the finite stream.
LiveSpec == Spec /\ WF_vars(Step) /\ WF_vars(ReadMsg)

(***************************************************************************)
(* The vocabulary of the properties: the protocol's table of types.        *)
(***************************************************************************)
RequestTypes == {"init", "echo", "generate", "broadcast", "read", "topology"}
OkTypes == {"init_ok", "echo_ok", "generate_ok", "broadcast_ok", "read_ok", "topology_ok"}

ReplyTypeOf(t) ==
    CASE t = "init" -> "init_ok"
      [] t = "echo" -> "echo_ok"
      [] t = "generate" -> "generate_ok"
      [] t = "broadcast" -> "broadcast_ok"
      [] t = "read" -> "read_ok"
      [] t = "topology" -> "topology_ok"

Last(s) == s[Len(s)]
Front(s) == SubSeq(s, 1, Len(s) - 1)

IsRequest(raw) == raw.json /\ raw.payload.type \in RequestTypes
IsBroadcast(raw) == raw.json /\ raw.payload.type = "broadcast"

\* The requests among the JSON values in.
RequestsOf(in) == SelectSeq(in, IsRequest)

\* The values of the broadcast requests among the JSON values in, in order.
BroadcastsOf(in) ==
    LET b == SelectSeq(in, IsBroadcast) IN [k \in 1..Len(b) |-> b[k].payload.message]

\* The inputs whose step has returned Ok: all of them between two steps, and
\* all but the last while the last is being stepped or has ended the process.
Answered == IF pc \in {"read", "done"} THEN inputs ELSE Front(inputs)

\* This step flushed a reply line.
Replied == Len(stdout') > Len(stdout)

\* C1: the reply written for a request that carries msg_id = r has
\* in_reply_to = r, whatever was processed before it.
ReplyCorrelation ==
    [][(Replied /\ Last(inputs).msg_id # None)
         => Last(stdout').body.in_reply_to = Last(inputs).msg_id]_vars

\* A third request numbered 7 is answered with in_reply_to = 7.
ReplyCorrelationWitness ==
    /\ Len(stdout) = 3
    /\ inputs[3].msg_id = Some(7)
    /\ stdout[3].body.in_reply_to = Some(7)

\* C2: the msg_id values of the emitted replies are 0, 1, 2, ... in emission
\* order: the k-th reply carries msg_id = k - 1.
MonotoneCounter ==
    \A k \in 1..Len(stdout) : stdout[k].body.id = Some(k - 1)

\* Two replies numbered 0 and 1 with a *_ok input between their requests.
MonotoneCounterWitness ==
    /\ Len(inputs) = 3
    /\ inputs[2].payload.type \in OkTypes
    /\ Len(stdout) = 2
    /\ stdout[2].body.id = Some(1)

\* C3: a read is answered with read_ok whose messages list is the values of
\* the broadcast requests processed before it, in arrival order, duplicates
\* kept, and empty when there were none.
BroadcastAccumulation ==
    [][(Replied /\ Last(inputs).payload.type = "read")
         => /\ Last(stdout').body.payload.type = "read_ok"
            /\ Last(stdout').body.payload.messages = BroadcastsOf(Front(inputs))]_vars

\* A read after broadcast 20 and broadcast 10 is answered with [20, 10].
BroadcastAccumulationWitness ==
    /\ Len(stdout) = 3
    /\ stdout[3].body.payload.type = "read_ok"
    /\ stdout[3].body.payload.messages = <<20, 10>>

OkInputsInert ==
    [][(pc = "step" /\ Last(inputs).payload.type \in OkTypes)
         => /\ stdout' = stdout
            /\ outbuf' = outbuf
            /\ id' = id
            /\ messages' = messages
            /\ err' = err
            /\ pc' = "read"]_vars

\* An echo_ok, then an echo: a single reply, numbered 0.
OkInputsInertWitness ==
    /\ Len(inputs) = 2
    /\ inputs[1].payload.type = "echo_ok"
    /\ inputs[2].payload.type = "echo"
    /\ Len(stdout) = 1
    /\ stdout[1].body.id = Some(0)

\* C6: an envelope whose type is none of the twelve is a fatal
\* deserialization error: no reply, no change of the node, abnormal end.
UnknownTypeFatal ==
    [][(Len(inputs') > Len(inputs) /\ Last(inputs').json
            /\ Last(inputs').payload.type \notin RequestTypes \cup OkTypes)
         => /\ pc' = "failed"
            /\ err' = Some("STDIN::Could not deserialize")
            /\ stdout' = stdout
            /\ outbuf' = outbuf
            /\ id' = id
            /\ messages' = messages]_vars

\* An unknown type arrives after a broadcast was answered.
UnknownTypeFatalWitness ==
    /\ Len(inputs) = 2
    /\ inputs[1].payload.type = "broadcast"
    /\ inputs[2].payload.type = "gossip"
    /\ pc = "failed"
    /\ Len(stdout) = 1
    /\ messages = <<inputs[1].payload.message>>

\* C7: a reply's src is its request's dest and its dest the request's src.
AddressSwap ==
    [][Replied
         => /\ Last(stdout').src = Last(inputs).dest
            /\ Last(stdout').dst = Last(inputs).src]_vars

\* A request from c2 to n1 is answered from n1 to c2.
AddressSwapWitness ==
    /\ Len(stdout) = 2
    /\ inputs[2].src = "c2"
    /\ stdout[2].src = "n1"
    /\ stdout[2].dst = "c2"

\* The k-th reply line answers the k-th request of in.
InRequestOrder(in) ==
    LET reqs == RequestsOf(in) IN
    /\ Len(stdout) = Len(reqs)
    /\ \A k \in 1..Len(stdout) :
        /\ stdout[k].dst = reqs[k].src
        /\ stdout[k].body.in_reply_to = reqs[k].msg_id

\* C8: replies are emitted in the order of their requests, and when request
\* N+1 is read the reply for request N is a flushed line: none is held back.
FlushedBeforeNextRead ==
    /\ pc # "failed" => outbuf = <<>>
    /\ pc \in {"read", "step", "done"} => InRequestOrder(Answered)

\* The third request has been read, and the two replies before it are out.
FlushedBeforeNextReadWitness ==
    /\ pc = "step"
    /\ Len(inputs) = 3
    /\ Len(RequestsOf(inputs)) = 3
    /\ inputs[1].src # inputs[2].src
    /\ Len(stdout) = 2

\* C9: every request processed has exactly one reply, of the matching type:
\* the types of the replies are those the requests call for, one for one.
ExactlyOneReply ==
    LET reqs == RequestsOf(Answered) IN
    [k \in 1..Len(stdout) |-> stdout[k].body.payload.type]
        = [k \in 1..Len(reqs) |-> ReplyTypeOf(reqs[k].payload.type)]

\* A topology, a *_ok input and a read: two replies.
ExactlyOneReplyWitness ==
    /\ pc = "done"
    /\ Len(inputs) = 3
    /\ inputs[1].payload.type = "topology"
    /\ inputs[2].payload.type \in OkTypes
    /\ inputs[3].payload.type = "read"
    /\ Len(stdout) = 2

\* C10: the first fatal error ends the process: no later input is read, no
\* further reply is emitted, and the replies emitted are those of the inputs
\* before the failing one.
FailStop ==
    /\ [](err # None => /\ pc = "failed"
                        /\ Len(stdout) = Len(RequestsOf(Front(inputs))))
    /\ [][err # None => UNCHANGED <<inputs, stdout, outbuf, id, messages>>]_vars

\* The write of the third reply failed after two replies were emitted.
FailStopWitness ==
    /\ pc = "failed"
    /\ err = Some("Write::failed")
    /\ Len(inputs) = 3
    /\ Len(stdout) = 2

\* This step is step running on a request of type t.
Stepping(t) == pc = "step" /\ Last(inputs).payload.type = t

\* C11: an echo request with payload s is answered with echo_ok whose echo
\* field is s, whatever the node's state and the earlier requests.
EchoIdentity ==
    [][(Replied /\ Last(inputs).payload.type = "echo")
         => Last(stdout').body.payload
              = [type |-> "echo_ok", echo |-> Last(inputs).payload.echo]]_vars

\* After a broadcast and an echo of "hi", an echo of "" is answered with "".
EchoIdentityWitness ==
    /\ Len(stdout) = 3
    /\ inputs[1].payload.type = "broadcast"
    /\ stdout[2].body.payload = [type |-> "echo_ok", echo |-> "hi"]
    /\ inputs[3].payload = [type |-> "echo", echo |-> ""]
    /\ stdout[3].body.payload = [type |-> "echo_ok", echo |-> ""]

\* C12: a topology request is answered with topology_ok whatever its map
\* holds, and changes nothing of the node but the counter: messages stays.
TopologyAcceptance ==
    [][Stepping("topology")
         => /\ messages' = messages
            /\ err' = None
                 => /\ Replied
                    /\ Last(stdout').body.payload = [type |-> "topology_ok"]
                    /\ id' = id + 1]_vars

\* A broadcast of 10, a self-referencing topology, then a read: [10].
TopologyAcceptanceWitness ==
    /\ Len(stdout) = 3
    /\ inputs[1].payload.type = "broadcast"
    /\ inputs[2].payload = [type |-> "topology", topology |-> {<<"n1", <<"n1">>>>}]
    /\ stdout[2].body.payload.type = "topology_ok"
    /\ stdout[3].body.payload = [type |-> "read_ok", messages |-> <<10>>]

\* C13: unless an input is ill-formed or a write fails, the process reaches
\* the end of input and exits with status 0, with a reply out for every
\* request of the stream.
CleanTermination ==
    <>(\/ err # None
       \/ /\ ExitCode = Some(0)
          /\ Len(stdout) = Len(RequestsOf(inputs)))

\* A stream of two requests and a *_ok input: exit 0 with two replies.
CleanTerminationWitness ==
    /\ ExitCode = Some(0)
    /\ err = None
    /\ Len(inputs) = 3
    /\ Len(RequestsOf(inputs)) = 2
    /\ Len(stdout) = 2

\* C14 as claimed: every reply carries a msg_id and an in_reply_to, also the
\* reply to a request that carries no msg_id.
EveryReplyBothIds ==
    \A k \in 1..Len(stdout) :
        /\ stdout[k].body.id # None
        /\ stdout[k].body.in_reply_to # None

\* C14, amended: every reply carries a msg_id; its in_reply_to is the copy of
\* the request's msg_id, so it is null exactly when the request carries none.
ReplyIdsCopied ==
    LET reqs == RequestsOf(Answered) IN
    \A k \in 1..Len(stdout) :
        /\ stdout[k].body.id # None
        /\ stdout[k].body.in_reply_to = None <=> reqs[k].msg_id = None

\* The second request carries no msg_id: its reply is numbered 1 and its
\* in_reply_to is null.
ReplyIdsCopiedWitness ==
    /\ Len(stdout) = 2
    /\ inputs[1].msg_id = Some(7)
    /\ inputs[2].msg_id = None
    /\ stdout[2].body.id = Some(1)
    /\ stdout[2].body.in_reply_to = None

\* C15: a broadcast is accepted for every integer of the wire format: it is
\* handed to step, its value is appended to messages and broadcast_ok is
\* the reply.
BroadcastAcceptsEveryInteger ==
    [][/\ (Len(inputs') > Len(inputs) /\ IsBroadcast(Last(inputs')))
            => (pc' = "step" /\ err' = None)
       /\ Stepping("broadcast")
            => /\ messages' = Append(messages, Last(inputs).payload.message)
               /\ Replied => Last(stdout').body.payload = [type |-> "broadcast_ok"]]_vars

\* The inputs that step has run on: not the one that step is about to run
\* on, and not one that could not be deserialized.
Stepped ==
    IF pc = "step" \/ err = Some("STDIN::Could not deserialize")
    THEN Front(inputs)
    ELSE inputs

\* C16: messages is the values of the broadcast requests accepted so far, in
\* arrival order; a step either leaves it alone or, for a broadcast, appends
\* the one value at its end.
MessagesLog ==
    /\ [](messages = BroadcastsOf(Stepped))
    /\ [][\/ messages' = messages
          \/ /\ Stepping("broadcast")
             /\ messages' = Append(messages, Last(inputs).payload.message)]_vars

\* Broadcast 10, a read, broadcast 10 again: the log holds 10 twice.
MessagesLogWitness ==
    /\ Len(inputs) = 3
    /\ inputs[2].payload.type = "read"
    /\ pc = "read"
    /\ messages = <<10, 10>>

\* A write of a reply has failed.
WriteFailed == err \in {Some("Serialize::serialize failed init"), Some("Write::failed")}

\* C17: in every state, also the one a failed write leaves, the counter is
\* the number of replies emitted so far.
CounterTracksReplies == id = Len(stdout)

\* One reply is out, a *_ok input went by, and the next reply's write failed:
\* the counter is still 1.
CounterTracksRepliesWitness ==
    /\ WriteFailed
    /\ Len(inputs) = 3
    /\ inputs[2].payload.type \in OkTypes
    /\ Len(stdout) = 1
    /\ id = 1

IsInit(raw) == raw.json /\ raw.payload.type = "init"

\* C18: no request waits for an init: a request stepped when no init has
\* come yet gets its normal reply; and every init, the first or a later one,
\* is answered with init_ok, moves the counter on by one and keeps messages.
NoInitGating ==
    [][/\ (pc = "step" /\ IsRequest(Last(inputs)) /\ err' = None
             /\ SelectSeq(Front(inputs), IsInit) = <<>>)
            => /\ Replied
               /\ Last(stdout').body.payload.type = ReplyTypeOf(Last(inputs).payload.type)
       /\ Stepping("init")
            => /\ messages' = messages
               /\ err' = None
                    => /\ Replied
                       /\ Last(stdout').body.payload = [type |-> "init_ok"]
                       /\ id' = id + 1]_vars

\* A broadcast before any init, then the init, then a read: the init is
\* answered as reply 1 and the read still returns the broadcast.
NoInitGatingWitness ==
    /\ Len(stdout) = 3
    /\ inputs[1].payload.type = "broadcast"
    /\ inputs[2].payload.type = "init"
    /\ stdout[1].body.payload.type = "broadcast_ok"
    /\ stdout[2].body = [id |-> Some(1), in_reply_to |-> inputs[2].msg_id,
                         payload |-> [type |-> "init_ok"]]
    /\ stdout[3].body.payload = [type |-> "read_ok", messages |-> <<inputs[1].payload.message>>]

\* A reply with the id of a generate_ok blanked.
WithoutUlid(reply) ==
    IF reply.body.payload.type = "generate_ok"
    THEN [reply EXCEPT !.body.payload.id = <<>>]
    ELSE reply

\* What the protocol's table makes of one request, given the counter and the
\* values broadcast before it.
ReplyFor(req, n, log) ==
    [src |-> req.dest, dst |-> req.src,
     body |-> [id |-> Some(n), in_reply_to |-> req.msg_id,
               payload |->
                   CASE req.payload.type = "init" -> [type |-> "init_ok"]
                     [] req.payload.type = "echo" -> [type |-> "echo_ok", echo |-> req.payload.echo]
                     [] req.payload.type = "generate" -> [type |-> "generate_ok", id |-> <<>>]
                     [] req.payload.type = "broadcast" -> [type |-> "broadcast_ok"]
                     [] req.payload.type = "read" -> [type |-> "read_ok", messages |-> log]
                     [] req.payload.type = "topology" -> [type |-> "topology_ok"]]]

RECURSIVE RunOf(_)
\* The replies (ids of generate_ok blanked), the counter and the log that an
\* input sequence determines.
RunOf(in) ==
    IF Len(in) = 0
    THEN [out |-> <<>>, id |-> 0, messages |-> <<>>]
    ELSE LET r == RunOf(Front(in))
             x == Last(in)
         IN  IF ~IsRequest(x)
             THEN r
             ELSE [out |-> Append(r.out, ReplyFor(x, r.id, r.messages)),
                   id |-> r.id + 1,
                   messages |-> IF x.payload.type = "broadcast"
                                THEN Append(r.messages, x.payload.message)
                                ELSE r.messages]

\* C19: the replies and the node's state are a function of the input
\* sequence, up to the id fields of generate_ok: two runs fed the same
\* inputs cannot differ in anything else, and without a generate in nothing.
DispatchDeterministic ==
    err = None
        => [out |-> [k \in 1..Len(stdout) |-> WithoutUlid(stdout[k])],
            id |-> id, messages |-> messages] = RunOf(Answered)

\* A run of two broadcasts and a read, no generate, that has ended.
DispatchDeterministicWitness ==
    /\ pc = "done"
    /\ Len(inputs) = 3
    /\ inputs[1].payload = [type |-> "broadcast", message |-> 20]
    /\ inputs[2].payload = [type |-> "broadcast", message |-> 10]
    /\ inputs[3].payload.type = "read"
    /\ Len(stdout) = 3

IsBroadcastOk(reply) == reply.body.payload.type = "broadcast_ok"

\* C20: the value is logged before the acknowledgement is written: there are
\* never more broadcast_ok replies than logged values, as many when no write
\* has failed, and one fewer when the write of a broadcast_ok failed.
AckedBroadcastsLogged ==
    LET acks == Len(SelectSeq(stdout, IsBroadcastOk)) IN
    /\ acks <= Len(messages)
    /\ ~WriteFailed => acks = Len(messages)
    /\ (WriteFailed /\ IsBroadcast(Last(inputs)))
         => /\ Len(messages) = acks + 1
            /\ Last(messages) = Last(inputs).payload.message

\* Broadcast 10 was acknowledged; the write of the acknowledgement of
\* broadcast 20 failed, and 20 is in the log.
AckedBroadcastsLoggedWitness ==
    /\ err = Some("Write::failed")
    /\ Len(inputs) = 2
    /\ inputs[2].payload = [type |-> "broadcast", message |-> 20]
    /\ Len(stdout) = 1
    /\ IsBroadcastOk(stdout[1])
    /\ messages = <<10, 20>>

====
